---- MODULE Spec2Model ----
(***************************************************************************)
(* Model of the encryption-detection pipeline: the start-button handler    *)
(* of the GUI (main), EncToolDetection, AutoCorrelation, PartedCheck,      *)
(* CreateFileCounter, KsTest, CompressionTest, SignatureAnalysis and       *)
(* EntropyEstimation.                                                      *)
(*                                                                         *)
(* Files are sequences of bytes (0..255).  Floating-point statistics are   *)
(* kept as tagged rationals [k, n, d] (k = "num"), or k = "nan" / "inf"    *)
(* for the IEEE values the Go code can produce; comparisons follow IEEE    *)
(* (every comparison with NaN is false).                                   *)
(***************************************************************************)
EXTENDS Integers, Sequences, FiniteSets, TLC

VARIABLES
    pc,              \* position of the running handler / function
    mode,            \* "main": the button handler; "counter": CreateFileCounter
                     \* alone; "unit": another function alone
    input,           \* the path typed as input: [path, data]
    outputDir,       \* the path typed as output directory (its kind)
    optFile,         \* the "_opt" sibling: [exists, data]
    calls,           \* functions invoked so far in this run
    errorWindows,    \* QErrorMessage windows shown
    enc,             \* locals of EncToolDetection
    encToolResult,   \* main: encToolResult
    encToolFound,    \* main: encToolFound
    autocorrResult,  \* main: autocorrResult
    partedResult,    \* main: partedResult
    cfc,             \* locals of CreateFileCounter
    hist,            \* main: counter, total as returned by CreateFileCounter
    stats,           \* main: ksStatistic, compressionStat, signatureStat, entropyStat
    toolErr,         \* CompressionTest: CompressionTestToolErr != nil
    flags,           \* main: the five ...True booleans
    finalResult,     \* main: finalResult (the vote count), -1 before it is computed
    encryptionResult,\* main: encryptionResult
    part1Result,     \* main: part1Result (which message)
    part2Result,     \* main: part2Result (which message)
    fatalReason,     \* why the process ended (log.Fatal / runtime panic)
    readErr,         \* CreateFileCounter: the non-EOF error a read returned, "" if none
    call,            \* a function called on its own: [fn, its arguments, result]
    goro             \* CreateFileCounterGoro workers, their channel, WaitGroup and caller

vars == <<pc, mode, input, outputDir, optFile, calls, errorWindows, enc,
          encToolResult, encToolFound, autocorrResult, partedResult, cfc, hist,
          stats, toolErr, flags, finalResult, encryptionResult, part1Result,
          part2Result, fatalReason, readErr, call, goro>>

\* everything but the goroutines
restVars == <<pc, mode, input, outputDir, optFile, calls, errorWindows, enc,
              encToolResult, encToolFound, autocorrResult, partedResult, cfc, hist,
              stats, toolErr, flags, finalResult, encryptionResult, part1Result,
              part2Result, fatalReason, readErr, call>>

----------------------------------------------------------------------------
(* Bounds of the model *)

\* main's blockSize is 1048576; the model runs the same code with a small block
BlockSize == 16
\* files of the model hold at most this many blocks
MaxBlocks == 2
\* block sizes requested from CreateFileCounter when it is run alone: 1..MaxReqBlock
MaxReqBlock == 5
\* sizes of the files CreateFileCounter is run on alone: 0..MaxCounterFile
MaxCounterFile == 6
\* fractional bits of the fixed-point base-2 logarithm used for the entropy
Log2FracBits == 10

----------------------------------------------------------------------------
(* Generic helpers *)

Min(a, b) == IF a <= b THEN a ELSE b
Max(a, b) == IF a >= b THEN a ELSE b
Abs(a) == IF a < 0 THEN -a ELSE a

RECURSIVE SumSeq(_)
SumSeq(s) == IF s = <<>> THEN 0 ELSE Head(s) + SumSeq(Tail(s))

RECURSIVE Repeat(_, _)
Repeat(s, n) == IF n <= 0 THEN <<>> ELSE s \o Repeat(s, n - 1)

RECURSIVE Flatten(_)
Flatten(ss) == IF ss = <<>> THEN <<>> ELSE Head(ss) \o Flatten(Tail(ss))

Take(s, n) == SubSeq(s, 1, Min(n, Len(s)))

\* s padded with zero bytes (or cut) to exactly n bytes
PadTo(s, n) == Take(s \o Repeat(<<0>>, n - Len(s)), n)

----------------------------------------------------------------------------
(* IEEE float64 values as the code compares them *)

Num(n, d) == [k |-> "num", n |-> n, d |-> d]
NaN == [k |-> "nan", n |-> 0, d |-> 1]
Inf == [k |-> "inf", n |-> 1, d |-> 1]

\* a <= b on float64
FLeq(a, b) ==
    IF a.k = "nan" \/ b.k = "nan" THEN FALSE
    ELSE IF b.k = "inf" THEN TRUE
    ELSE IF a.k = "inf" THEN FALSE
    ELSE a.n * b.d <= b.n * a.d

\* a >= b on float64
FGeq(a, b) == FLeq(b, a)

----------------------------------------------------------------------------
(* Signature engine: hex encoding and pattern matching *)

\* hex.EncodeToString: two hex digits (kept as numbers 0..15) per byte, the
\* high digit first
HexEncode(bytes) ==
    [i \in 1..(2 * Len(bytes)) |->
        IF i % 2 = 1 THEN bytes[(i + 1) \div 2] \div 16 ELSE bytes[i \div 2] % 16]

\* A rule's regex: the hex digits `pre`, then `gap` arbitrary characters
\* (".{gap}"), then the hex digits `post`; `sector` is the rule's directive.
Rule(pre, gap, post, sector) ==
    [pre |-> pre, gap |-> gap, post |-> post, sector |-> sector]

\* the six patterns of EncToolDetection, digit by digit
EncPatterns ==
    ("FreeBSD GELI" :> Rule(<<4,7,4,5,4,15,4,13,3,10,3,10,4,5,4,12,4,9>>, 0, <<>>, -1)) @@
    ("BitLocker" :> Rule(<<14,11,5,8,9,0,2,13,4,6,5,6,4,5,2,13,4,6,5,3,2,13,0,0,0,2,0,8,0,0,0,0>>, 0, <<>>, 1)) @@
    ("LUKSv1" :> Rule(<<4,12,5,5,4,11,5,3,11,10,11,14,0,0,0,1>>, 0, <<>>, 1)) @@
    ("LUKSv2" :> Rule(<<4,12,5,5,4,11,5,3,11,10,11,14,0,0,0,2>>, 0, <<>>, 1)) @@
    ("FileVault v2" :> Rule(<<4,1,5,0,5,3,4,2>>, 456, <<0,8,0,0,0,0,0,0,0,0,0,0,0,0,0,0>>, 0)) @@
    ("PGP WDE" :> Rule(<<14,11,4,8,9,0,5,0,4,7,5,0,4,7,5,5,4,1,5,2,4,4,0,0,0,0,0,0,0,0,0,0>>, 0, <<>>, 1))

EncRuleNames == DOMAIN EncPatterns

PatLen(p) == Len(p.pre) + p.gap + Len(p.post)

\* the regex matches the text starting at position i (1-based)
MatchAt(text, p, i) ==
    /\ i + PatLen(p) - 1 <= Len(text)
    /\ SubSeq(text, i, i + Len(p.pre) - 1) = p.pre
    /\ SubSeq(text, i + Len(p.pre) + p.gap, i + PatLen(p) - 1) = p.post

RECURSIVE MatchesFrom(_, _, _)
\* number of leftmost non-overlapping matches found from position i on
MatchesFrom(text, p, i) ==
    LET starts == {j \in i..(Len(text) - PatLen(p) + 1) : MatchAt(text, p, j)}
    IN  IF starts = {} THEN 0
        ELSE \* the leftmost match; the search goes on after its end
             LET first == CHOOSE j \in starts : \A k \in starts : j <= k
             IN  1 + MatchesFrom(text, p, first + PatLen(p))

\* len(regex.FindAll(data)): a start and an end position per match
FindAllLen(data, p) == 2 * MatchesFrom(data, p, 1)

FindBytesPattern(data, p) == FindAllLen(data, p) \div 2

----------------------------------------------------------------------------
(* File reads *)

\* file.Read(buffer) at offset pos of a regular file: the bytes returned
ReadAt(data, pos, n) ==
    IF pos >= Len(data) THEN <<>> ELSE SubSeq(data, pos + 1, Min(pos + n, Len(data)))

\* a faulty variant: the rest of the file matched as one buffer
ScanRestAtOnce(data, pos, bs, p) ==
    FindBytesPattern(HexEncode(ReadAt(data, pos, Len(data))), p)

RECURSIVE ScanFrom(_, _, _, _)
\* the block-by-block read loop of a full scan: matches of p summed over the
\* blocks read from offset pos to end-of-file
ScanFrom(data, pos, bs, p) ==
    IF ReadAt(data, pos, bs) = <<>> THEN 0
    ELSE FindBytesPattern(HexEncode(ReadAt(data, pos, bs)), p)
         + ScanFrom(data, pos + Len(ReadAt(data, pos, bs)), bs, p)

\* the offset and origin of a sector probe's file.Seek, as the new position
\* (negative: the seek fails)
SeekTarget(size, bs, skip) ==
    IF skip < 0 THEN size + bs * (Abs(skip) - 2)
    ELSE (bs - 1) * (skip - 1)

----------------------------------------------------------------------------
(* The files of the model *)

ZeroBlock == Repeat(<<0>>, BlockSize)
\* a block starting with the LUKSv1 magic 4c 55 4b 53 ba be 00 01
Luks1Block == PadTo(<<76, 85, 75, 83, 186, 190, 0, 1>>, BlockSize)
\* a block starting with the GELI magic 47 45 4f 4d 3a 3a 45 4c 49
GeliBlock == PadTo(<<71, 69, 79, 77, 58, 58, 69, 76, 73>>, BlockSize)
\* a block starting with the ELF magic 7f 45 4c 46
ElfBlock == PadTo(<<127, 69, 76, 70>>, BlockSize)
\* a block alternating 0, 255
AltBlock == PadTo(Repeat(<<0, 255>>, BlockSize), BlockSize)
\* a short tail, less than a block
ShortTail == <<1, 2, 3>>
\* every byte value once, in ascending order
Ramp256 == [i \in 1..256 |-> i - 1]

BlockSeqs(blocks) == UNION {[1..n -> blocks] : n \in 0..MaxBlocks}

\* whole blocks, optionally followed by a short tail
FilesOf(blocks) ==
    {Flatten(bs) \o t : bs \in BlockSeqs(blocks), t \in {<<>>, ShortTail}}

InputFiles == FilesOf({ZeroBlock, Luks1Block, GeliBlock})

OptData ==
    {<<>>, ShortTail, ZeroBlock, AltBlock \o ShortTail,
     ZeroBlock \o AltBlock \o ShortTail, ElfBlock \o ZeroBlock, Ramp256}

\* the "_opt" sibling after the optimisation pre-pass: absent, or some file
OptFiles == {[exists |-> FALSE, data |-> <<>>]}
            \cup {[exists |-> TRUE, data |-> d] : d \in OptData}

\* what a typed path can be: the empty string, a path os.Stat fails on,
\* a directory, a regular file
PathKinds == {"empty", "missing", "dir", "file"}

\* The clicks of the model: every pair of path kinds with one input file, and
\* every input file with a directory to write to.
Clicks ==
    {[ip |-> ip, od |-> od, data |-> IF ip = "file" THEN ZeroBlock ELSE <<>>] :
        ip \in PathKinds, od \in PathKinds}
    \cup {[ip |-> "file", od |-> "dir", data |-> d] : d \in InputFiles}

\* no function is being called on its own
NoCall == [fn |-> "none"]

\* no goroutine has been started
NoGoro == [cap |-> 0, chan |-> <<>>, wg |-> 0, worker |-> <<>>, sends |-> <<>>,
           caller |-> [kind |-> "none", pc |-> "none", received |-> <<>>],
           crashed |-> FALSE]

NoLabel == "none"
NoEncryption == "NoEncryption"
FullDiskEncryption == "FullDiskEncryption"
FileBasedEncryption == "FileBasedEncryption"

NoEnc == [pos |-> 0, visited |-> {}, found |-> [r \in EncRuleNames |-> 0]]
NoCfc == [blockSize |-> 0, req |-> 0, pos |-> 0, buffered |-> 0,
          buffer |-> <<>>, totalCounter |-> [b \in {} |-> 0], readBytesCount |-> 0]
NoHist == [counter |-> [b \in {} |-> 0], total |-> 0]
NoStats == [ks |-> NaN, maxDiffPosition |-> 0, compression |-> NaN,
            signature |-> NaN, entropy |-> NaN]
NoFlags == [autocorr |-> FALSE, ks |-> FALSE, compression |-> FALSE,
            signature |-> FALSE, entropy |-> FALSE]

----------------------------------------------------------------------------
(* main: the start-button handler, path checks *)

\* the condition under which the handler runs the pipeline
RunCondition(inputFileStatErrNil, inputFileTypeErrNil, outputDirTypeErrNil) ==
    inputFileStatErrNil \/ inputFileTypeErrNil \/ outputDirTypeErrNil

\* the checks of the two paths: where the handler goes, the windows it shows
PathChecks(ip, od) ==
    IF ip = "empty" \/ od = "empty"
    THEN [next |-> "done", windows |-> {"empty path"}, reason |-> "rejected"]
    ELSE IF ip = "missing"
    \* os.Stat returned a nil FileInfo: inputFileStat.IsDir() dereferences it
    THEN [next |-> "panic", windows |-> {}, reason |-> "nil FileInfo"]
    ELSE IF od = "missing"
    THEN [next |-> "panic",
          windows |-> IF ip = "dir" THEN {"input is a directory"} ELSE {},
          reason |-> "nil FileInfo"]
    ELSE [next |-> IF RunCondition(TRUE, ip # "dir", od # "file")
                   THEN "enc_call" ELSE "done",
          windows |-> (IF ip = "dir" THEN {"input is a directory"} ELSE {})
                      \cup (IF od = "file" THEN {"output is a file"} ELSE {}),
          reason |-> ""]

Init ==
    /\ pc = "idle"
    /\ mode = "main"
    /\ input = [path |-> "empty", data |-> <<>>]
    /\ outputDir = "empty"
    /\ optFile = [exists |-> FALSE, data |-> <<>>]
    /\ calls = {}
    /\ errorWindows = {}
    /\ enc = NoEnc
    /\ encToolResult = NoEnc.found
    /\ encToolFound = FALSE
    /\ autocorrResult = Num(0, 1)
    /\ partedResult = ""
    /\ cfc = NoCfc
    /\ hist = NoHist
    /\ stats = NoStats
    /\ toolErr = FALSE
    /\ flags = NoFlags
    /\ finalResult = -1
    /\ encryptionResult = NoLabel
    /\ part1Result = ""
    /\ part2Result = ""
    /\ fatalReason = ""
    /\ readErr = ""
    /\ call = NoCall
    /\ goro = NoGoro

\* startButton.OnClicked, up to the decision to run
Click ==
    /\ pc = "idle"
    /\ mode = "main"
    /\ \E c \in Clicks :
         /\ input' = [path |-> c.ip, data |-> c.data]
         /\ outputDir' = c.od
         /\ pc' = PathChecks(c.ip, c.od).next
         /\ errorWindows' = PathChecks(c.ip, c.od).windows
         /\ fatalReason' = PathChecks(c.ip, c.od).reason
    /\ UNCHANGED <<goro, readErr, call, mode, optFile, calls, enc, encToolResult, encToolFound,
                   autocorrResult, partedResult, cfc, hist, stats, toolErr, flags,
                   finalResult, encryptionResult, part1Result, part2Result>>

----------------------------------------------------------------------------
(* EncToolDetection (hailMaryMode = false, as main calls it) *)

\* the rule loop is over: every rule visited, or a probe read nothing (break)
EncLoopDone == pc = "enc_ret" \/ (pc = "enc_loop" /\ enc.visited = EncRuleNames)

\* os.Open succeeds on a file and on a directory; the counts start at 0
EncOpen ==
    /\ pc = "enc_call"
    /\ calls' = calls \cup {"EncToolDetection"}
    /\ enc' = NoEnc
    /\ pc' = "enc_loop"
    /\ UNCHANGED <<goro, readErr, call, mode, input, outputDir, optFile, errorWindows, encToolResult,
                   encToolFound, autocorrResult, partedResult, cfc, hist, stats,
                   toolErr, flags, finalResult, encryptionResult, part1Result,
                   part2Result, fatalReason>>

\* sector 0: the full scan from the current position; a directory reads nothing
EncFullScan(r) ==
    /\ EncPatterns[r].sector = 0
    /\ enc' = [enc EXCEPT
                 !.visited = @ \cup {r},
                 !.found[r] = @ + (IF input.path = "file"
                                   THEN ScanFrom(input.data, enc.pos, BlockSize, EncPatterns[r])
                                   ELSE 0),
                 !.pos = IF input.path = "file" THEN Max(@, Len(input.data)) ELSE @]
    /\ pc' = pc
    /\ fatalReason' = fatalReason

\* a faulty variant: the position left where the probe's read ended
EncProbeNoSeekBack(r) ==
    /\ EncPatterns[r].sector # 0
    /\ LET target == SeekTarget(Len(input.data), BlockSize, EncPatterns[r].sector)
           block == ReadAt(input.data, target, BlockSize)
       IN  \E dirSeekFails \in BOOLEAN :
             \* a directory has no size of its own: a seek from its end may fail
             /\ dirSeekFails => (input.path = "dir" /\ EncPatterns[r].sector < 0)
             /\ IF (input.path = "file" /\ target < 0) \/ dirSeekFails
                THEN \* log.Fatalln("Seek error: ", seekErr)
                     /\ pc' = "fatal"
                     /\ fatalReason' = "Seek error"
                     /\ enc' = [enc EXCEPT !.visited = @ \cup {r}]
                ELSE IF input.path = "dir" \/ block = <<>>
                THEN \* bytesRead == 0 || fileReadErr != nil: break out of the rule loop
                     /\ pc' = "enc_ret"
                     /\ fatalReason' = fatalReason
                     /\ enc' = [enc EXCEPT !.visited = @ \cup {r}, !.pos = Max(target, 0)]
                ELSE /\ pc' = pc
                     /\ fatalReason' = fatalReason
                     /\ enc' = [enc EXCEPT
                                  !.visited = @ \cup {r},
                                  !.found[r] = @ + FindBytesPattern(HexEncode(block),
                                                                    EncPatterns[r]),
                                  !.pos = target + Len(block)]

\* sector # 0: seek, read one block, match, seek back to 0
EncProbe(r) ==
    /\ EncPatterns[r].sector # 0
    /\ LET target == SeekTarget(Len(input.data), BlockSize, EncPatterns[r].sector)
           block == ReadAt(input.data, target, BlockSize)
       IN  \E dirSeekFails \in BOOLEAN :
             \* a directory has no size of its own: a seek from its end may fail
             /\ dirSeekFails => (input.path = "dir" /\ EncPatterns[r].sector < 0)
             /\ IF (input.path = "file" /\ target < 0) \/ dirSeekFails
                THEN \* log.Fatalln("Seek error: ", seekErr)
                     /\ pc' = "fatal"
                     /\ fatalReason' = "Seek error"
                     /\ enc' = [enc EXCEPT !.visited = @ \cup {r}]
                ELSE IF input.path = "dir" \/ block = <<>>
                THEN \* bytesRead == 0 || fileReadErr != nil: break out of the rule loop
                     /\ pc' = "enc_ret"
                     /\ fatalReason' = fatalReason
                     /\ enc' = [enc EXCEPT !.visited = @ \cup {r}, !.pos = Max(target, 0)]
                ELSE /\ pc' = pc
                     /\ fatalReason' = fatalReason
                     /\ enc' = [enc EXCEPT
                                  !.visited = @ \cup {r},
                                  !.found[r] = @ + FindBytesPattern(HexEncode(block),
                                                                    EncPatterns[r]),
                                  !.pos = 0]

\* one iteration of "for sigType := range signatures": Go visits the map's
\* keys in an arbitrary order
EncRule ==
    /\ pc = "enc_loop"
    /\ \E r \in EncRuleNames \ enc.visited : EncFullScan(r) \/ EncProbe(r)
    /\ UNCHANGED <<goro, readErr, call, mode, input, outputDir, optFile, calls, errorWindows,
                   encToolResult, encToolFound, autocorrResult, partedResult, cfc,
                   hist, stats, toolErr, flags, finalResult, encryptionResult,
                   part1Result, part2Result>>

\* return foundSignaturesTotal; the locals are gone
EncReturn ==
    /\ EncLoopDone
    /\ encToolResult' = enc.found
    /\ enc' = NoEnc
    /\ pc' = "gate"
    /\ UNCHANGED <<goro, readErr, call, mode, input, outputDir, optFile, calls, errorWindows,
                   encToolFound, autocorrResult, partedResult, cfc, hist, stats,
                   toolErr, flags, finalResult, encryptionResult, part1Result,
                   part2Result, fatalReason>>

----------------------------------------------------------------------------
(* main: the targeted signature gate *)

noEncToolResults == [r \in EncRuleNames |-> 0]

\* !maps.Equal(encToolResult, noEncToolResults)
\* a faulty variant: the gate asks for every rule to have matched
GateFiresOnAll(result) == \A r \in DOMAIN result : result[r] # 0

GateFires(result) == result # noEncToolResults

Gate ==
    /\ pc = "gate"
    /\ IF GateFires(encToolResult)
       THEN /\ encToolFound' = TRUE
            /\ part1Result' = "tool signature found"
            /\ pc' = "done"
       ELSE /\ encToolFound' = FALSE
            /\ part1Result' = part1Result
            /\ pc' = "autocorr"
    /\ UNCHANGED <<goro, readErr, call, mode, input, outputDir, optFile, calls, errorWindows, enc,
                   encToolResult, autocorrResult, partedResult, cfc, hist, stats,
                   toolErr, flags, finalResult, encryptionResult, part2Result,
                   fatalReason>>

----------------------------------------------------------------------------
(* AutoCorrelation *)

RECURSIVE FullBlocksAndTail(_, _, _)
\* a faulty variant: a read shorter than the buffer is scored as well
FullBlocksAndTail(data, pos, bs) ==
    IF Len(ReadAt(data, pos, bs)) = 0 THEN <<>>
    ELSE <<ReadAt(data, pos, bs)>> \o FullBlocksAndTail(data, pos + bs, bs)

\* the blocks the read loop scores: a read shorter than the buffer ends the loop
\* before it is scored
RECURSIVE FullBlocks(_, _, _)
FullBlocks(data, pos, bs) ==
    IF Len(ReadAt(data, pos, bs)) = 0 \/ bs > Len(ReadAt(data, pos, bs)) THEN <<>>
    ELSE <<ReadAt(data, pos, bs)>> \o FullBlocks(data, pos + bs, bs)

\* floatBuffer, up to the positive factor len(buffer): val - mean(buffer)
Centered(block) == [i \in 1..Len(block) |-> Len(block) * block[i] - SumSeq(block)]

\* Values standing for a standard deviation the model does not compute: the
\* scores are means of square roots.  Below, at and above the threshold.
SpreadValues == {Num(0, 1), Num(125, 1000), Num(126, 1000), Num(1, 2)}

\* a faulty variant: the sample standard deviation, undefined for one score
AutoCorrValuesSample(blocks) ==
    IF blocks = <<>> THEN {Num(0, 1)}
    ELSE IF Len(blocks[1]) < 2 \/ Len(blocks) = 1 THEN {NaN}
    ELSE IF \A i \in 1..Len(blocks) : Centered(blocks[i]) = Centered(blocks[1])
    THEN {Num(0, 1)}
    ELSE SpreadValues

\* what stats.StandardDeviation(totalAutocorr) can return for these blocks
AutoCorrValues(blocks) ==
    IF blocks = <<>> THEN {Num(0, 1)}          \* empty input: error, return 0.0
    ELSE IF Len(blocks[1]) < 2 THEN {NaN}      \* no lag: meanFloats of nothing
    ELSE IF \A i \in 1..Len(blocks) : Centered(blocks[i]) = Centered(blocks[1])
    THEN {Num(0, 1)}                           \* equal scores
    ELSE SpreadValues

\* os.Open(optimizedfname) finds the "_opt" sibling as the optimisation pre-pass
\* (or an earlier run) left it: nothing has read it before this call.
AutoCorrelation ==
    /\ pc = "autocorr"
    /\ calls' = calls \cup {"AutoCorrelation"}
    /\ \E o \in OptFiles :
         /\ optFile' = o
         /\ IF ~o.exists
            THEN /\ pc' = "fatal"
                 /\ fatalReason' = "open"
                 /\ autocorrResult' = autocorrResult
            ELSE /\ autocorrResult' \in AutoCorrValues(FullBlocks(o.data, 0, BlockSize))
                 /\ pc' = "parted"
                 /\ fatalReason' = fatalReason
    /\ UNCHANGED <<goro, readErr, call, mode, input, outputDir, errorWindows, enc, encToolResult,
                   encToolFound, partedResult, cfc, hist, stats, toolErr, flags,
                   finalResult, encryptionResult, part1Result, part2Result>>

----------------------------------------------------------------------------
(* PartedCheck and the filesystem branch of main *)

noFSResults == {"", "unknown"}

\* slices.Contains(noFSResults, partedResult)
\* a faulty variant: the membership test inverted
NoFSContainsInverted(result) == result \notin noFSResults

NoFSContains(result) == result \in noFSResults

\* what the probe can answer: nothing that holds no byte has a filesystem
PartedValues(in) ==
    IF in.path = "file" /\ in.data # <<>> THEN {"", "unknown", "ext4"}
    ELSE {"", "unknown"}

PartedCheck ==
    /\ pc = "parted"
    /\ calls' = calls \cup {"PartedCheck"}
    /\ \E res \in PartedValues(input) :
         /\ partedResult' = res
         /\ IF NoFSContains(res)
            THEN /\ part1Result' = "no encryption, on to stage 2"
                 /\ pc' = "cfc_call"
            ELSE /\ part1Result' = part1Result
                 /\ pc' = "auto_only"
    /\ encryptionResult' = NoEncryption
    /\ UNCHANGED <<goro, readErr, call, mode, input, outputDir, optFile, errorWindows, enc, encToolResult,
                   encToolFound, autocorrResult, cfc, hist, stats, toolErr, flags,
                   finalResult, part2Result, fatalReason>>

autocorrThreshold == Num(125, 1000)

\* the label of the branch that looks at the autocorrelation alone
\* a faulty variant: the threshold itself excluded
AutoOnlyLabelStrict(result) ==
    IF FLeq(result, autocorrThreshold) /\ result # autocorrThreshold
    THEN FileBasedEncryption ELSE NoEncryption

AutoOnlyLabel(result) ==
    IF FLeq(result, autocorrThreshold) THEN FileBasedEncryption ELSE NoEncryption

AutoOnly ==
    /\ pc = "auto_only"
    /\ encryptionResult' = AutoOnlyLabel(autocorrResult)
    /\ part1Result' = IF FLeq(autocorrResult, autocorrThreshold)
                      THEN "file-based encryption or compressed data"
                      ELSE "no encryption, unencrypted files"
    /\ pc' = "done"
    /\ UNCHANGED <<goro, readErr, call, mode, input, outputDir, optFile, calls, errorWindows, enc,
                   encToolResult, encToolFound, autocorrResult, partedResult, cfc,
                   hist, stats, toolErr, flags, finalResult, part2Result, fatalReason>>

----------------------------------------------------------------------------
(* The histogram: countBytes, mergeCounterLists, CreateFileCounter *)

\* a Go map[byte]int is a function on the keys it holds; a missing key reads 0
Get(m, k) == IF k \in DOMAIN m THEN m[k] ELSE 0

EmptyCounter == [b \in {} |-> 0]

RECURSIVE RangeSum(_, _, _)
\* sum of the counts of the byte values lo..hi
RangeSum(m, lo, hi) ==
    IF lo = hi THEN Get(m, lo)
    ELSE RangeSum(m, lo, (lo + hi) \div 2) + RangeSum(m, (lo + hi) \div 2 + 1, hi)

\* a faulty variant: an index expression that adds the missing key with a zero count
MapAfterIndexInserting(m, k) == [x \in DOMAIN m \cup {k} |-> Get(m, x)]

\* the map after the expression totalCounter[byte(i)] has been evaluated: an index
\* expression on the right-hand side reads, a missing key gives the zero value
MapAfterIndex(m, k) == m

RECURSIVE MapAfterIndexRange(_, _, _)
\* the map after the loop `for i := 0; i < 256; i++` has indexed the keys lo..hi
MapAfterIndexRange(m, lo, hi) ==
    IF lo = hi THEN MapAfterIndex(m, lo)
    ELSE LET first == MapAfterIndexRange(m, lo, (lo + hi) \div 2)
         IN  \* the keys of a map[byte]int are bytes
             IF DOMAIN first \subseteq 0..255
             THEN MapAfterIndexRange(first, (lo + hi) \div 2 + 1, hi)
             ELSE first

\* sum of the counts a map holds
SumCounter(m) == RangeSum(m, 0, 255)

countBytes(data) ==
    [b \in {data[i] : i \in 1..Len(data)} |->
        Cardinality({i \in 1..Len(data) : data[i] = b})]

\* a faulty variant: a count of counter2 replaces the count of counter1
mergeCounterListsOverwrite(counter1, counter2) ==
    [k \in DOMAIN counter1 \cup DOMAIN counter2 |->
        IF k \in DOMAIN counter2 THEN counter2[k] ELSE counter1[k]]

mergeCounterLists(counter1, counter2) ==
    [k \in DOMAIN counter1 \cup DOMAIN counter2 |-> Get(counter1, k) + Get(counter2, k)]

RECURSIVE FloorLog2(_)
\* int(math.Floor(math.Log2(float64(n)))) for n >= 1
FloorLog2(n) == IF n < 2 THEN 0 ELSE 1 + FloorLog2(n \div 2)

RECURSIVE Pow2(_)
Pow2(e) == IF e <= 0 THEN 1 ELSE 2 * Pow2(e - 1)

\* a faulty variant: the exponent rounded up instead of down
EffectiveBlockSizeRoundedUp(fsize, blockSize) ==
    IF fsize < blockSize
    THEN (IF Pow2(FloorLog2(fsize)) = fsize THEN fsize ELSE 2 * Pow2(FloorLog2(fsize)))
    ELSE blockSize

\* the block size CreateFileCounter uses for a file of fsize >= 1 bytes
EffectiveBlockSize(fsize, blockSize) ==
    IF fsize < blockSize THEN Pow2(FloorLog2(fsize)) ELSE blockSize

\* bufio.NewReaderSize never makes a buffer smaller than this
BufioMinSize == 16

\* a faulty variant: the whole buffer tallied, stale tail included
TalliedWholeBuffer(buffer, n) == buffer

\* the part of the buffer CreateFileCounter tallies after a read of n bytes
Tallied(buffer, n) == SubSeq(buffer, 1, n)

\* The file to count: main passes optimizedfname; run alone, the file is `input`.
CfcFile == IF mode = "main" THEN optFile ELSE [exists |-> TRUE, data |-> input.data]

CfcStart(bs, req) ==
    [blockSize |-> bs, req |-> req, pos |-> 0, buffered |-> 0,
     buffer |-> Repeat(<<0>>, bs), totalCounter |-> EmptyCounter, readBytesCount |-> 0]

\* os.Open, file.Stat, the choice of the block size, the reader and the buffer
CfcOpen ==
    /\ pc = "cfc_call"
    /\ calls' = calls \cup {"CreateFileCounter"}
    /\ LET req == IF mode = "main" THEN BlockSize ELSE cfc.req
           fsize == Len(CfcFile.data)
       IN  IF ~CfcFile.exists
           THEN /\ pc' = "fatal"
                /\ fatalReason' = "open"
                /\ cfc' = cfc
           ELSE IF fsize = 0 /\ fsize < req
           THEN \* 1 << int(math.Floor(math.Log2(0))): the conversion of -Inf to int
                \* is implementation-dependent.  A negative shift count panics; a
                \* count of 64 or more shifts the 1 out and leaves a block size of 0.
                \E negative \in BOOLEAN :
                    IF negative
                    THEN /\ pc' = "panic"
                         /\ fatalReason' = "negative shift amount"
                         /\ cfc' = cfc
                    ELSE /\ pc' = "cfc_loop"
                         /\ fatalReason' = fatalReason
                         /\ cfc' = CfcStart(0, req)
           ELSE /\ pc' = "cfc_loop"
                /\ fatalReason' = fatalReason
                /\ cfc' = CfcStart(EffectiveBlockSize(fsize, req), req)
    /\ UNCHANGED <<goro, readErr, call, mode, input, outputDir, optFile, errorWindows, enc, encToolResult,
                   encToolFound, autocorrResult, partedResult, hist, stats, toolErr,
                   flags, finalResult, encryptionResult, part1Result, part2Result>>

\* One iteration of the read loop.  reader.Read hands out what the reader has
\* buffered; with nothing buffered it reads the file, straight into the caller's
\* buffer when that is at least as large as its own.
CfcRead ==
    /\ pc = "cfc_loop"
    /\ LET bs == cfc.blockSize
           bufSize == Max(bs, BufioMinSize)
           direct == cfc.buffered = 0 /\ bs >= bufSize
           got == IF cfc.buffered > 0 THEN cfc.buffered
                  ELSE IF direct THEN Len(ReadAt(CfcFile.data, cfc.pos, bs))
                  ELSE Len(ReadAt(CfcFile.data, cfc.pos, bufSize))
           bytesRead == Min(bs, got)
           buffer == SubSeq(CfcFile.data, cfc.pos + 1, cfc.pos + bytesRead)
                     \o SubSeq(cfc.buffer, bytesRead + 1, Len(cfc.buffer))
       IN  IF bytesRead = 0
           THEN \* err == io.EOF || bytesRead == 0: break
                /\ pc' = "cfc_ret"
                /\ cfc' = cfc
           ELSE /\ pc' = pc
                /\ cfc' = [cfc EXCEPT
                             !.pos = @ + bytesRead,
                             !.buffered = got - bytesRead,
                             !.buffer = buffer,
                             !.readBytesCount = @ + bytesRead,
                             !.totalCounter =
                                 mergeCounterLists(@, countBytes(Tallied(buffer, bytesRead)))]
    /\ UNCHANGED <<goro, readErr, call, mode, input, outputDir, optFile, calls, errorWindows, enc,
                   encToolResult, encToolFound, autocorrResult, partedResult, hist,
                   stats, toolErr, flags, finalResult, encryptionResult, part1Result,
                   part2Result, fatalReason>>

\* return totalCounter, readBytesCount; the locals are gone
CfcReturn ==
    /\ pc = "cfc_ret"
    /\ hist' = [counter |-> cfc.totalCounter, total |-> cfc.readBytesCount]
    /\ cfc' = NoCfc
    /\ pc' = IF mode = "main" THEN "ks" ELSE "done"
    /\ UNCHANGED <<goro, readErr, call, mode, input, outputDir, optFile, calls, errorWindows, enc,
                   encToolResult, encToolFound, autocorrResult, partedResult,
                   stats, toolErr, flags, finalResult, encryptionResult, part1Result,
                   part2Result, fatalReason>>

----------------------------------------------------------------------------
(* KsTest *)

RECURSIVE KsScanSigned(_, _, _, _, _)
\* a faulty variant: the difference taken without its absolute value
KsScanSigned(counter, total, i, hi, st) ==
    IF i > hi THEN st
    ELSE LET c == st.cum + Get(counter, i)
             d == 256 * c - (i + 1) * total
         IN  IF i = 0 \/ d > st.num
             THEN KsScanSigned(counter, total, i + 1, hi, [cum |-> c, num |-> d, pos |-> i])
             ELSE KsScanSigned(counter, total, i + 1, hi, [st EXCEPT !.cum = c])

RECURSIVE KsScan(_, _, _, _, _)
\* The pass over the byte values i..hi in ascending order.  st.cum is the
\* cumulative count below i; st.num and st.pos are the largest difference so
\* far and its place, the difference |empiricalCDF[i] - theoreticalCDF[i]|
\* kept as its numerator over 256 * total.
KsScan(counter, total, i, hi, st) ==
    IF i > hi THEN st
    ELSE LET c == st.cum + Get(counter, i)
             d == Abs(256 * c - (i + 1) * total)
         IN  IF i = 0 \/ d > st.num
             THEN KsScan(counter, total, i + 1, hi, [cum |-> c, num |-> d, pos |-> i])
             ELSE KsScan(counter, total, i + 1, hi, [st EXCEPT !.cum = c])

RECURSIVE KsChunks(_, _, _, _, _)
\* the pass over the byte values 4 * lo .. 4 * hi + 3, four at a time; the
\* first half of the pass is complete before the second half starts
KsChunks(counter, total, lo, hi, st) ==
    IF lo = hi THEN KsScan(counter, total, 4 * lo, 4 * lo + 3, st)
    ELSE LET first == KsChunks(counter, total, lo, (lo + hi) \div 2, st)
         IN  IF first.pos <= 4 * hi + 3
             THEN KsChunks(counter, total, (lo + hi) \div 2 + 1, hi, first)
             ELSE first

\* ksStatistic and maxDiffPosition; a total of 0 divides 0 by 0 throughout
KsTest(counter, total) ==
    IF total = 0 THEN [ks |-> NaN, maxDiffPosition |-> 0]
    ELSE LET r == KsChunks(counter, total, 0, 63, [cum |-> 0, num |-> 0, pos |-> 0])
         IN  [ks |-> Num(r.num, 256 * total), maxDiffPosition |-> r.pos]

Ks ==
    /\ pc = "ks"
    /\ calls' = calls \cup {"KsTest"}
    /\ stats' = [stats EXCEPT
                   !.ks = KsTest(hist.counter, hist.total).ks,
                   !.maxDiffPosition = KsTest(hist.counter, hist.total).maxDiffPosition]
    /\ hist' = [hist EXCEPT !.counter = MapAfterIndexRange(hist.counter, 0, 255)]
    /\ pc' = "compression"
    /\ UNCHANGED <<goro, readErr, call, mode, input, outputDir, optFile, errorWindows, enc, encToolResult,
                   encToolFound, autocorrResult, partedResult, cfc, toolErr,
                   flags, finalResult, encryptionResult, part1Result, part2Result,
                   fatalReason>>

----------------------------------------------------------------------------
(* CompressionTest *)

CompressionTools == {"pigz", "lz4", "lbzip2", "zstd", "pixz"}

\* what "tool < file | wc -c" can print for a file of this size, as
\* performCompression reads it: 0 when the output is no number, a size well
\* below the file's, a size above it
CompressedSizes(fileSize) == {0, fileSize \div 4 + 1, fileSize + 8}

\* fileSize / compressed as float64, in thousandths
Ratio(fileSize, compressed) ==
    IF compressed = 0 THEN (IF fileSize = 0 THEN NaN ELSE Inf)
    ELSE Num((fileSize * 1000) \div compressed, 1000)

RECURSIVE RatioSum(_, _)
\* the sum of the ratios, in thousandths
RatioSum(fileSize, sizes) ==
    IF sizes = <<>> THEN 0
    ELSE Ratio(fileSize, Head(sizes)).n + RatioSum(fileSize, Tail(sizes))

\* (a + b + c + d + e) / 5.0 for the five ratios
AvgCompression(fileSize, sizes) ==
    IF \E i \in 1..Len(sizes) : Ratio(fileSize, sizes[i]).k = "nan" THEN NaN
    ELSE IF \E i \in 1..Len(sizes) : Ratio(fileSize, sizes[i]).k = "inf" THEN Inf
    ELSE Num(RatioSum(fileSize, sizes), 1000 * Len(sizes))

\* the value CompressionTest returns
CompressionTest(toolMissing, fileExists, fileSize, sizes) ==
    IF toolMissing THEN Num(0, 1)
    ELSE IF ~fileExists THEN Num(0, 1)
    ELSE AvgCompression(fileSize, sizes)

\* The sizes the five tools print, smallest first: the mean does not depend on
\* which tool printed which.
ToolOutputs(fileSize) ==
    {s \in [1..Cardinality(CompressionTools) -> CompressedSizes(fileSize)] :
        \A i \in 1..(Len(s) - 1) : s[i] <= s[i + 1]}

Compression ==
    /\ pc = "compression"
    /\ calls' = calls \cup {"CompressionTest"}
    /\ \E missing \in BOOLEAN, sizes \in ToolOutputs(Len(optFile.data)) :
         /\ toolErr' = missing
         /\ stats' = [stats EXCEPT !.compression =
                        CompressionTest(missing, optFile.exists, Len(optFile.data), sizes)]
    /\ pc' = "signature"
    /\ UNCHANGED <<goro, readErr, call, mode, input, outputDir, optFile, errorWindows, enc, encToolResult,
                   encToolFound, autocorrResult, partedResult, cfc, hist, flags,
                   finalResult, encryptionResult, part1Result, part2Result,
                   fatalReason>>

----------------------------------------------------------------------------
(* SignatureAnalysis *)

\* four rules of the catalogue of getSignatures (it holds some 550): "ELF
\* executable" 7f454c46, "Acronis True Image" b46e6844, "Adobe Shockwave Flash
\* file" 435753, "DVD video file" 000001ba
GenericPatterns ==
    ("ELF executable" :> Rule(<<7,15,4,5,4,12,4,6>>, 0, <<>>, 0)) @@
    ("Acronis True Image" :> Rule(<<11,4,6,14,6,8,4,4>>, 0, <<>>, 0)) @@
    ("Adobe Shockwave Flash file" :> Rule(<<4,3,5,7,5,3>>, 0, <<>>, 0)) @@
    ("DVD video file" :> Rule(<<0,0,0,0,0,1,11,10>>, 0, <<>>, 0))

RECURSIVE SumOver(_, _, _, _)
\* sum(foundSignaturesTotal): the matches of all rules over all blocks
SumOver(names, data, bs, patterns) ==
    IF names = {} THEN 0
    ELSE LET r == CHOOSE x \in names : TRUE
         IN  ScanFrom(data, 0, bs, patterns[r]) + SumOver(names \ {r}, data, bs, patterns)

MegaByte == 1048576

\* matches per megabyte
SignatureAnalysis(data, bs) ==
    IF Len(data) = 0 THEN NaN
    ELSE Num(SumOver(DOMAIN GenericPatterns, data, bs, GenericPatterns) * MegaByte,
             Len(data))

Signature ==
    /\ pc = "signature"
    /\ calls' = calls \cup {"SignatureAnalysis"}
    /\ stats' = [stats EXCEPT !.signature = SignatureAnalysis(optFile.data, BlockSize)]
    /\ pc' = "entropy"
    /\ UNCHANGED <<goro, readErr, call, mode, input, outputDir, optFile, errorWindows, enc, encToolResult,
                   encToolFound, autocorrResult, partedResult, cfc, hist, toolErr,
                   flags, finalResult, encryptionResult, part1Result, part2Result,
                   fatalReason>>

----------------------------------------------------------------------------
(* EntropyEstimation *)

RECURSIVE Log2Frac(_, _)
\* the next k binary digits of log2(m / 2^14), for 2^14 <= m < 2^15
Log2Frac(m, k) ==
    IF k = 0 THEN 0
    ELSE IF (m * m) \div 16384 >= 32768
    THEN Pow2(k - 1) + Log2Frac(((m * m) \div 16384) \div 2, k - 1)
    ELSE Log2Frac((m * m) \div 16384, k - 1)

\* math.Log2(n) for an integer n >= 1, in units of 2^-Log2FracBits
Log2Fixed(n) ==
    FloorLog2(n) * Pow2(Log2FracBits)
    + Log2Frac((n * 16384) \div Pow2(FloorLog2(n)), Log2FracBits)

RECURSIVE CountLogSum(_, _, _)
\* sum over the byte values lo..hi of count * log2(count)
CountLogSum(counter, lo, hi) ==
    IF lo = hi THEN Get(counter, lo) * Log2Fixed(Get(counter, lo))
    ELSE CountLogSum(counter, lo, (lo + hi) \div 2)
         + CountLogSum(counter, (lo + hi) \div 2 + 1, hi)

\* -sum p*log2(p) over the 256 byte values, p = count/total.  With a total of
\* 0 every p is 0/0; a byte value that does not occur has p = 0, and
\* 0 * math.Log2(0) = 0 * -Inf is NaN, which the sum keeps.
EntropyEstimation(counter, total) ==
    IF total = 0 THEN NaN
    ELSE IF \E i \in 0..255 : Get(counter, i) = 0 THEN NaN
    ELSE Num(Log2Fixed(total) - CountLogSum(counter, 0, 255) \div total, Pow2(Log2FracBits))

Entropy ==
    /\ pc = "entropy"
    /\ calls' = calls \cup {"EntropyEstimation"}
    /\ stats' = [stats EXCEPT !.entropy = EntropyEstimation(hist.counter, hist.total)]
    /\ hist' = [hist EXCEPT !.counter = MapAfterIndexRange(hist.counter, 0, 255)]
    /\ pc' = "vote"
    /\ UNCHANGED <<goro, readErr, call, mode, input, outputDir, optFile, errorWindows, enc, encToolResult,
                   encToolFound, autocorrResult, partedResult, cfc, toolErr,
                   flags, finalResult, encryptionResult, part1Result, part2Result,
                   fatalReason>>

----------------------------------------------------------------------------
(* main: the vote *)

ksTestThreshold == Num(1, 10)
compressionThreshold == Num(11, 10)
signatureThreshold == Num(150, 1)
entropyThreshold == Num(795, 100)

\* autocorrTrue, ksTrue, compressionTrue, signatureTrue, entropyTrue
\* a faulty variant: a statistic equal to its threshold does not count
VoteFlagsStrict(autocorr, st) ==
    [autocorr |-> FLeq(autocorr, autocorrThreshold) /\ autocorr # autocorrThreshold,
     ks |-> FLeq(st.ks, ksTestThreshold) /\ st.ks # ksTestThreshold,
     compression |-> FLeq(st.compression, compressionThreshold)
                     /\ st.compression # compressionThreshold,
     signature |-> FLeq(st.signature, signatureThreshold)
                   /\ st.signature # signatureThreshold,
     entropy |-> FGeq(st.entropy, entropyThreshold) /\ st.entropy # entropyThreshold]

VoteFlags(autocorr, st) ==
    [autocorr |-> FLeq(autocorr, autocorrThreshold),
     ks |-> FLeq(st.ks, ksTestThreshold),
     compression |-> FLeq(st.compression, compressionThreshold),
     signature |-> FLeq(st.signature, signatureThreshold),
     entropy |-> FGeq(st.entropy, entropyThreshold)]

RECURSIVE CountTrueBools(_)
CountTrueBools(bools) ==
    IF bools = <<>> THEN 0
    ELSE (IF Head(bools) THEN 1 ELSE 0) + CountTrueBools(Tail(bools))

\* the branch main takes on the vote count
\* a faulty variant: the first branch taken for at most one positive vote
VoteBranchAtMostOne(n) ==
    IF n <= 1 THEN "at most 2"
    ELSE IF n > 1 /\ n <= 5 THEN "in [3,5]"
    ELSE "counting error"

VoteBranch(n) ==
    IF n <= 2 THEN "at most 2"
    ELSE IF n > 3 /\ n <= 5 THEN "in [3,5]"
    ELSE "counting error"

\* the label each branch sets
VoteLabel(n) ==
    IF VoteBranch(n) = "in [3,5]" THEN FullDiskEncryption ELSE NoEncryption

Vote ==
    /\ pc = "vote"
    /\ flags' = VoteFlags(autocorrResult, stats)
    /\ finalResult' = CountTrueBools(<<flags'.autocorr, flags'.ks, flags'.compression,
                                       flags'.signature, flags'.entropy>>)
    /\ part2Result' = VoteBranch(finalResult')
    /\ encryptionResult' = VoteLabel(finalResult')
    /\ pc' = "done"
    /\ UNCHANGED <<goro, readErr, call, mode, input, outputDir, optFile, calls, errorWindows, enc,
                   encToolResult, encToolFound, autocorrResult, partedResult, cfc,
                   hist, stats, toolErr, part1Result, fatalReason>>

----------------------------------------------------------------------------
(* The button handler, from the click to its return or the end of the process *)

Next ==
    \/ Click
    \/ EncOpen
    \/ EncRule
    \/ EncReturn
    \/ Gate
    \/ AutoCorrelation
    \/ PartedCheck
    \/ AutoOnly
    \/ CfcOpen
    \/ CfcRead
    \/ CfcReturn
    \/ Ks
    \/ Compression
    \/ Signature
    \/ Entropy
    \/ Vote

Spec == Init /\ [][Next]_vars

----------------------------------------------------------------------------
(* CreateFileCounter run alone, on any file with any requested block size *)

\* every file of 0..MaxCounterFile bytes over two byte values, and the larger
\* files of the model
CounterFiles ==
    UNION {[1..n -> {0, 255}] : n \in 0..MaxCounterFile}
    \cup OptData \cup {ZeroBlock \o ShortTail, AltBlock \o ZeroBlock \o ShortTail}

ReqBlockSizes == 1..MaxReqBlock \cup {BlockSize}

InitCounter ==
    /\ pc = "cfc_call"
    /\ mode = "counter"
    /\ input \in {[path |-> "file", data |-> d] : d \in CounterFiles}
    /\ outputDir = "empty"
    /\ optFile = [exists |-> FALSE, data |-> <<>>]
    /\ calls = {}
    /\ errorWindows = {}
    /\ enc = NoEnc
    /\ encToolResult = NoEnc.found
    /\ encToolFound = FALSE
    /\ autocorrResult = Num(0, 1)
    /\ partedResult = ""
    /\ cfc \in {[NoCfc EXCEPT !.req = r] : r \in ReqBlockSizes}
    /\ hist = NoHist
    /\ stats = NoStats
    /\ toolErr = FALSE
    /\ flags = NoFlags
    /\ finalResult = -1
    /\ encryptionResult = NoLabel
    /\ part1Result = ""
    /\ part2Result = ""
    /\ fatalReason = ""
    /\ readErr = ""
    /\ call = NoCall
    /\ goro = NoGoro

NextCounter == CfcOpen \/ CfcRead \/ CfcReturn

SpecCounter == InitCounter /\ [][NextCounter]_vars

----------------------------------------------------------------------------
(* Properties of the pipeline's stages and of the histogram *)

VotingTests ==
    {"CreateFileCounter", "KsTest", "CompressionTest", "SignatureAnalysis",
     "EntropyEstimation"}

LaterFunctions == {"AutoCorrelation", "PartedCheck"} \cup VotingTests

VotingPcs ==
    {"cfc_call", "cfc_loop", "cfc_ret", "ks", "compression", "signature",
     "entropy", "vote"}

Ended == pc \in {"done", "fatal", "panic"}

\* the handler is in the voting stage, or ended in it
InVotingStage ==
    \/ pc \in VotingPcs
    \/ Ended /\ "CreateFileCounter" \in calls

\* the handler is in the autocorrelation-only stage, or ended in it
AutoOnlyMessages ==
    {"file-based encryption or compressed data", "no encryption, unencrypted files"}

AutoOnlyDone == pc = "done" /\ part1Result \in AutoOnlyMessages

InAutoOnlyStage == pc = "auto_only" \/ AutoOnlyDone

VoteDone == pc = "done" /\ finalResult >= 0

\* C1: a vote count of 3, 4 or 5 makes the label FullDiskEncryption.
C1_ThreeToFiveIsFullDisk ==
    (VoteDone /\ finalResult \in 3..5) => encryptionResult = FullDiskEncryption

GateDecided == "EncToolDetection" \in calls /\ (pc = "done" \/ "AutoCorrelation" \in calls
                                                  \/ pc = "autocorr")

\* C3: the gate fires exactly when one of the six counts of EncToolDetection is
\* not 0, and when it fires the handler ends with none of AutoCorrelation,
\* PartedCheck, CreateFileCounter, KsTest, CompressionTest, SignatureAnalysis
\* and EntropyEstimation called.
C3_GateFiresIffSomeCount ==
    /\ GateDecided =>
         (encToolFound <=> \E r \in EncRuleNames : encToolResult[r] # 0)
    /\ encToolFound =>
         /\ pc = "done"
         /\ part1Result = "tool signature found"
         /\ calls \cap LaterFunctions = {}
         /\ finalResult = -1
    /\ (calls \cap LaterFunctions # {}) => \A r \in EncRuleNames : encToolResult[r] = 0

C3_GateFired ==
    /\ pc = "done"
    /\ encToolFound
    /\ encToolResult["FreeBSD GELI"] > 0
    /\ \A r \in EncRuleNames \ {"FreeBSD GELI"} : encToolResult[r] = 0

\* C4: with a compressor missing, the compression statistic is 0 and the
\* compression flag is false.
C4_MissingToolVotesFalse ==
    (toolErr /\ VoteDone) =>
        (stats.compression = Num(0, 1) /\ flags.compression = FALSE)

FlagNames == {"autocorr", "ks", "compression", "signature", "entropy"}

TrueCount(f) == Cardinality({x \in FlagNames : f[x]})

\* C5: a vote count of 0, 1 or 2 makes the label NoEncryption, for every
\* combination of the five flags with at most two of them true.
C5_AtMostTwoIsNoEncryption ==
    /\ (VoteDone /\ finalResult \in 0..2) => encryptionResult = NoEncryption
    /\ VoteDone => finalResult = TrueCount(flags)
    /\ \A f \in [FlagNames -> BOOLEAN] :
         TrueCount(f) <= 2 => VoteLabel(TrueCount(f)) = NoEncryption

C5_TwoVotes ==
    VoteDone /\ finalResult = 2 /\ TrueCount(flags) = 2 /\ encryptionResult = NoEncryption

\* C6: in the autocorrelation-only stage no other test is evaluated, and the
\* label is FileBasedEncryption exactly when the autocorrelation is at most
\* 0.125, NoEncryption otherwise.
C6_AutoOnlyStage ==
    /\ InAutoOnlyStage =>
         /\ calls = {"EncToolDetection", "AutoCorrelation", "PartedCheck"}
         /\ stats = NoStats
         /\ finalResult = -1
    /\ AutoOnlyDone =>
         encryptionResult =
            IF autocorrResult.k = "num"
               /\ 1000 * autocorrResult.n <= 125 * autocorrResult.d
            THEN FileBasedEncryption ELSE NoEncryption

C6_AtThreshold ==
    /\ AutoOnlyDone
    /\ autocorrResult = Num(125, 1000)
    /\ encryptionResult = FileBasedEncryption

ZeroByteRun ==
    /\ mode = "main"
    /\ input = [path |-> "file", data |-> <<>>]
    /\ optFile.data = <<>>
    /\ "EncToolDetection" \in calls

\* C7: on a zero-byte input the handler ends with an explicit error before the
\* vote: no vote count, no label, and no undefined statistic turned into a flag.
C7_ZeroByteIsExplicitError ==
    (ZeroByteRun /\ Ended) =>
        /\ pc = "fatal"
        /\ finalResult = -1
        /\ part2Result = ""
        /\ part1Result \notin AutoOnlyMessages

\* C8: a click whose input path is missing or not a regular file, or whose
\* output path is not a directory, ends before any test: EncToolDetection is
\* not called.
C8_BadPathRunsNothing ==
    (mode = "main" /\ pc # "idle"
     /\ (input.path \in {"missing", "dir"} \/ outputDir \in {"missing", "file"}))
        => calls = {}

\* a probe of EncToolDetection has sought to an offset before the file's start
SeekOutsideFile ==
    /\ input.path = "file"
    /\ \E r \in enc.visited :
         /\ EncPatterns[r].sector # 0
         /\ SeekTarget(Len(input.data), BlockSize, EncPatterns[r].sector) < 0

\* C9: a sector probe whose seek offset is outside the file affects that rule
\* alone: the function goes on to the other rules and returns.
C9_SeekErrorIsLocal ==
    SeekOutsideFile => (pc \in {"enc_loop", "enc_ret"} /\ fatalReason = "")

\* C10: in CreateFileCounter the counts of the histogram sum to the number of
\* bytes read, after every block merged and in what it returns, the last and
\* shorter block included.
C10_CountsSumToTotal ==
    /\ SumCounter(cfc.totalCounter) = cfc.readBytesCount
    /\ SumCounter(hist.counter) = hist.total
    /\ pc = "cfc_ret" => cfc.readBytesCount = Len(input.data) \/ cfc.blockSize = 0

C10_ShortLastBlock ==
    /\ pc = "cfc_ret"
    /\ cfc.blockSize > 0
    /\ cfc.readBytesCount > cfc.blockSize
    /\ cfc.readBytesCount % cfc.blockSize # 0
    /\ SumCounter(cfc.totalCounter) = Len(input.data)

----------------------------------------------------------------------------
(* Functions called on their own, each on the arguments of a bounded set *)

\* the caller's state around a call: everything of the handler is at rest
HandlerAtRest(c) ==
    /\ pc = "unit_call"
    /\ mode = "unit"
    /\ input = [path |-> "empty", data |-> <<>>]
    /\ outputDir = "empty"
    /\ optFile = [exists |-> FALSE, data |-> <<>>]
    /\ calls = {}
    /\ errorWindows = {}
    /\ enc = NoEnc
    /\ encToolResult = NoEnc.found
    /\ encToolFound = FALSE
    /\ autocorrResult = Num(0, 1)
    /\ partedResult = ""
    /\ cfc = NoCfc
    /\ hist = NoHist
    /\ stats = NoStats
    /\ toolErr = FALSE
    /\ flags = NoFlags
    /\ finalResult = -1
    /\ encryptionResult = NoLabel
    /\ part1Result = ""
    /\ part2Result = ""
    /\ fatalReason = ""
    /\ readErr = ""
    /\ call = c

\* a function called on its own: no goroutine is running
UnitInit(c) == HandlerAtRest(c) /\ goro = NoGoro

\* the call returns r
UnitReturn(r) ==
    /\ call' = [call EXCEPT !.result = r]
    /\ pc' = "unit_done"
    /\ UNCHANGED <<goro, readErr, mode, input, outputDir, optFile, calls, errorWindows, enc,
                   encToolResult, encToolFound, autocorrResult, partedResult, cfc,
                   hist, stats, toolErr, flags, finalResult, encryptionResult,
                   part1Result, part2Result, fatalReason>>

Called(fn) == pc = "unit_call" /\ call.fn = fn

Returned(fn) == pc = "unit_done" /\ call.fn = fn

\* buffers scanned on their own hold at most this many bytes
MaxScanLen == 3

\* "MPEG-4 AAC audio": "(?i)(fff1)", a rule of the catalogue of two literal bytes
AacPattern == Rule(<<15, 15, 15, 1>>, 0, <<>>, 0)

ScanBytes == {0, 15, 16, 241, 255}

ScanBuffers == UNION {[1..n -> ScanBytes] : n \in 0..MaxScanLen}

ScanCalls == {[fn |-> "FindBytesPattern", buffer |-> b, result |-> -1] : b \in ScanBuffers}

\* hexData := hex.EncodeToString(buffer[:bytesRead]); FindBytesPattern(hexData, regex)
CallFindBytesPattern ==
    /\ Called("FindBytesPattern")
    /\ UnitReturn(FindBytesPattern(HexEncode(call.buffer), AacPattern))

\* The histograms handed to the statistics: those of files where one byte
\* value occurs, where two do, where every value occurs equally often, and
\* where every value occurs but not equally often.
HistFiles ==
    {ZeroBlock, AltBlock, ShortTail, Repeat(<<255>>, BlockSize),
     Ramp256, Ramp256 \o Ramp256, Ramp256 \o ZeroBlock, Ramp256 \o ShortTail,
     [Ramp256 EXCEPT ![1] = 1], [Ramp256 EXCEPT ![256] = 0]}
    \cup UNION {[1..n -> {0, 128, 255}] : n \in 1..3}
    \cup {Ramp256 \o t : t \in [1..2 -> {0, 128, 255}]}

HistCalls(fn) ==
    {[fn |-> fn, counter |-> countBytes(d), total |-> Len(d), result |-> NaN] :
        d \in HistFiles}

\* the return of a function that was handed the map totalCounter: the caller's
\* map is the one the function indexed, readBytesCount was passed by value
HistReturn(r) ==
    /\ call' = [call EXCEPT !.result = r,
                            !.counter = MapAfterIndexRange(call.counter, 0, 255)]
    /\ pc' = "unit_done"
    /\ UNCHANGED <<goro, readErr, mode, input, outputDir, optFile, calls, errorWindows, enc,
                   encToolResult, encToolFound, autocorrResult, partedResult, cfc,
                   hist, stats, toolErr, flags, finalResult, encryptionResult,
                   part1Result, part2Result, fatalReason>>

CallEntropyEstimation ==
    /\ Called("EntropyEstimation")
    /\ HistReturn(EntropyEstimation(call.counter, call.total))

CallKsTest ==
    /\ Called("KsTest")
    /\ HistReturn(KsTest(call.counter, call.total))

\* a faulty variant: the difference taken without its square
ChiSqTermSigned(observed, total) == 256 * observed - total

\* math.Pow(observed-expected, 2) / expected with expected = total / 256, as
\* its numerator over 256 * total
ChiSqTerm(observed, total) == (256 * observed - total) * (256 * observed - total)

RECURSIVE ChiSqSum(_, _, _, _)
\* the sum of the terms of the byte values lo..hi
ChiSqSum(counter, total, lo, hi) ==
    IF lo = hi THEN ChiSqTerm(Get(counter, lo), total)
    ELSE ChiSqSum(counter, total, lo, (lo + hi) \div 2)
         + ChiSqSum(counter, total, (lo + hi) \div 2 + 1, hi)

\* chiSquare; with a total of 0 every term is 0 / 0
ChiSqTest(counter, total) ==
    IF total = 0 THEN NaN
    ELSE Num(ChiSqSum(counter, total, 0, 255), 256 * total)

CallChiSqTest ==
    /\ Called("ChiSqTest")
    /\ HistReturn(ChiSqTest(call.counter, call.total))

\* statistics just under, at and just over a threshold, and NaN
Around(threshold) ==
    {Num(10 * threshold.n - 1, 10 * threshold.d), threshold,
     Num(10 * threshold.n + 1, 10 * threshold.d), NaN}

VoteFlagsCalls ==
    {[fn |-> "VoteFlags", autocorr |-> a,
      stats |-> [ks |-> k, maxDiffPosition |-> 0, compression |-> c,
                 signature |-> g, entropy |-> e],
      result |-> NoFlags] :
        a \in Around(autocorrThreshold), k \in Around(ksTestThreshold),
        c \in Around(compressionThreshold), g \in Around(signatureThreshold),
        e \in Around(entropyThreshold)}

\* var autocorrTrue = ... var entropyTrue = ...
CallVoteFlags ==
    /\ Called("VoteFlags")
    /\ UnitReturn(VoteFlags(call.autocorr, call.stats))

----------------------------------------------------------------------------
(* CreateFileCounterGoro *)

RECURSIVE Xor(_, _)
\* a ^ b on non-negative integers: Go's ^ between two operands is bitwise XOR
Xor(a, b) ==
    IF a = 0 THEN b
    ELSE IF b = 0 THEN a
    ELSE (((a % 2) + (b % 2)) % 2) + 2 * Xor(a \div 2, b \div 2)

\* the block size CreateFileCounterGoro uses for a file of fsize >= 1 bytes
GoroBlockSize(fsize, blockSize) ==
    IF fsize < blockSize THEN Xor(2, FloorLog2(fsize)) ELSE blockSize

RECURSIVE GoroLoop(_, _, _, _, _)
\* The read loop from file position pos on.  file.Read fills the buffer from
\* the file; a read of 0 bytes ends the loop, and so does a read shorter than
\* the buffer, after readBytesCount has been advanced and before the tally.
GoroLoop(data, pos, bs, totalCounter, readBytesCount) ==
    LET bytesRead == Len(ReadAt(data, pos, bs))
        buffer == ReadAt(data, pos, bs)
    IN  IF bytesRead = 0
        THEN [Counter |-> totalCounter, BytesRead |-> readBytesCount]
        ELSE IF bs > bytesRead
        THEN [Counter |-> totalCounter, BytesRead |-> readBytesCount + bytesRead]
        ELSE GoroLoop(data, pos + bytesRead, bs,
                      mergeCounterLists(totalCounter, countBytes(buffer)),
                      readBytesCount + bytesRead)

\* The ByteCounter sent on resultChannel, with the block size used.  For an
\* empty file smaller than the block the size is 2 ^ int(-Inf): negative or
\* beyond every allocation, and make([]byte, blockSize) panics.
CreateFileCounterGoro(data, blockSize) ==
    IF Len(data) = 0 /\ Len(data) < blockSize
    THEN [panic |-> TRUE, blockSize |-> 0, Counter |-> EmptyCounter, BytesRead |-> 0]
    ELSE LET bs == GoroBlockSize(Len(data), blockSize)
             r == GoroLoop(data, 0, bs, EmptyCounter, 0)
         IN  [panic |-> FALSE, blockSize |-> bs, Counter |-> r.Counter,
              BytesRead |-> r.BytesRead]

\* files short enough for the loop to be unrolled, each called with the block
\* sizes that read it in at most eight blocks
GoroFiles == {d \in CounterFiles : Len(d) <= 4 * BlockSize}

GoroCalls ==
    UNION {{[fn |-> "CreateFileCounterGoro", data |-> d, blockSize |-> b,
             result |-> [panic |-> FALSE, blockSize |-> 0, Counter |-> EmptyCounter,
                         BytesRead |-> 0]] :
               b \in {req \in ReqBlockSizes : Len(d) <= 8 * req}} : d \in GoroFiles}

CallCreateFileCounterGoro ==
    /\ Called("CreateFileCounterGoro")
    /\ UnitReturn(CreateFileCounterGoro(call.data, call.blockSize))

----------------------------------------------------------------------------
(* EncToolDetection: the seek of a sector probe, for any sector directive *)

\* sector directives run from -MaxSector to MaxSector
MaxSector == 3

SectorSeekCalls ==
    {[fn |-> "SectorSeek", size |-> Len(d), sector |-> n, result |-> 0] :
        d \in InputFiles, n \in (-MaxSector..MaxSector) \ {0}}

\* file.Seek(..., 2) for skip < 0, skip = skip - 1; file.Seek(..., 0) for skip > 0
CallSectorSeek ==
    /\ Called("SectorSeek")
    /\ UnitReturn(SeekTarget(call.size, BlockSize, call.sector))

----------------------------------------------------------------------------
(* EncToolDetection with hailMaryMode = true *)

\* the LUKSv1 magic alone: shorter than a block
Luks1Magic == <<76, 85, 75, 83, 186, 190, 0, 1>>

HailMaryFiles ==
    FilesOf({ZeroBlock, Luks1Block, GeliBlock})
    \cup {ZeroBlock \o Luks1Magic, ZeroBlock \o GeliBlock \o Luks1Magic, Luks1Magic}

RECURSIVE HailMaryLoopShortDropped(_, _, _, _)
\* a faulty variant: a read shorter than the buffer ends the loop unmatched
HailMaryLoopShortDropped(data, pos, bs, found) ==
    IF Len(ReadAt(data, pos, bs)) < bs THEN found
    ELSE HailMaryLoopShortDropped(data, pos + Len(ReadAt(data, pos, bs)), bs,
            [r \in EncRuleNames |->
                found[r] + FindBytesPattern(HexEncode(ReadAt(data, pos, bs)),
                                            EncPatterns[r])])

RECURSIVE HailMaryLoop(_, _, _, _)
\* The read loop from position pos on: file.Read continues where the last read
\* ended; a read of 0 bytes ends the loop; every rule is matched on the bytes
\* read, buffer[:bytesRead].
HailMaryLoop(data, pos, bs, found) ==
    IF ReadAt(data, pos, bs) = <<>> THEN found
    ELSE HailMaryLoop(data, pos + Len(ReadAt(data, pos, bs)), bs,
            [r \in EncRuleNames |->
                found[r] + FindBytesPattern(HexEncode(ReadAt(data, pos, bs)),
                                            EncPatterns[r])])

\* foundSignaturesTotal as returned
EncToolDetectionHailMary(data, bs) == HailMaryLoop(data, 0, bs, NoEnc.found)

HailMaryCalls ==
    {[fn |-> "EncToolDetectionHailMary", data |-> d, result |-> NoEnc.found] :
        d \in HailMaryFiles}

CallHailMary ==
    /\ Called("EncToolDetectionHailMary")
    /\ UnitReturn(EncToolDetectionHailMary(call.data, BlockSize))

----------------------------------------------------------------------------
(* AutoCorrelation called on its own *)

AutoCorrFiles == OptData \cup FilesOf({ZeroBlock, AltBlock})

AutoCorrCalls ==
    {[fn |-> "AutoCorrelation", data |-> d,
      result |-> [scores |-> 0, std |-> NaN]] : d \in AutoCorrFiles}

\* the call returns std; len(totalAutocorr) is kept with it
CallAutoCorrelation ==
    /\ Called("AutoCorrelation")
    /\ \E v \in AutoCorrValues(FullBlocks(call.data, 0, BlockSize)) :
          UnitReturn([scores |-> Len(FullBlocks(call.data, 0, BlockSize)), std |-> v])

----------------------------------------------------------------------------
(* mergeCounterLists called on its own *)

\* merged histograms are those of blocks of at most this many bytes
MaxMergeLen == 2

MergeCounters == {countBytes(d) : d \in UNION {[1..n -> {0, 128, 255}] : n \in 0..MaxMergeLen}}

MergeCalls ==
    {[fn |-> "mergeCounterLists", a |-> a, b |-> b, c |-> c, result |-> <<>>] :
        a \in MergeCounters, b \in MergeCounters, c \in MergeCounters}

\* three histograms merged pairwise in both orders and as a chain in both groupings
CallMergeCounterLists ==
    /\ Called("mergeCounterLists")
    /\ UnitReturn([ab |-> mergeCounterLists(call.a, call.b),
                   ba |-> mergeCounterLists(call.b, call.a),
                   ab_c |-> mergeCounterLists(mergeCounterLists(call.a, call.b), call.c),
                   a_bc |-> mergeCounterLists(call.a, mergeCounterLists(call.b, call.c))])

----------------------------------------------------------------------------
(* The read loop of SignatureAnalysis called on its own, for one rule *)

FullScanCalls ==
    {[fn |-> "FullScan", data |-> d, blockSize |-> bs, result |-> -1] :
        d \in ScanBuffers, bs \in 1..MaxScanLen}

\* foundSignaturesTotal["MPEG-4 AAC audio"] after the loop
CallFullScan ==
    /\ Called("FullScan")
    /\ UnitReturn(ScanFrom(call.data, 0, call.blockSize, AacPattern))

----------------------------------------------------------------------------
(* Every function called on its own *)

InitUnit ==
    \/ \E c \in ScanCalls : UnitInit(c)
    \/ \E c \in HistCalls("EntropyEstimation") : UnitInit(c)
    \/ \E c \in HistCalls("KsTest") : UnitInit(c)
    \/ \E c \in HistCalls("ChiSqTest") : UnitInit(c)
    \/ \E c \in VoteFlagsCalls : UnitInit(c)
    \/ \E c \in GoroCalls : UnitInit(c)
    \/ \E c \in SectorSeekCalls : UnitInit(c)
    \/ \E c \in HailMaryCalls : UnitInit(c)
    \/ \E c \in AutoCorrCalls : UnitInit(c)
    \/ \E c \in MergeCalls : UnitInit(c)
    \/ \E c \in FullScanCalls : UnitInit(c)

NextUnit ==
    \/ CallFindBytesPattern
    \/ CallEntropyEstimation
    \/ CallKsTest
    \/ CallChiSqTest
    \/ CallVoteFlags
    \/ CallCreateFileCounterGoro
    \/ CallSectorSeek
    \/ CallHailMary
    \/ CallAutoCorrelation
    \/ CallMergeCounterLists
    \/ CallFullScan

SpecUnit == InitUnit /\ [][NextUnit]_vars

----------------------------------------------------------------------------
(* Properties of the functions called on their own *)

RECURSIVE ByteOccurrences(_, _, _)
\* the non-overlapping occurrences of the bytes `lit` in `buffer` from byte
\* position i on, counted from the left
ByteOccurrences(buffer, lit, i) ==
    IF i + Len(lit) - 1 > Len(buffer) THEN 0
    ELSE IF SubSeq(buffer, i, i + Len(lit) - 1) = lit
    THEN 1 + ByteOccurrences(buffer, lit, i + Len(lit))
    ELSE ByteOccurrences(buffer, lit, i + 1)

\* the two bytes of the rule "MPEG-4 AAC audio"
AacBytes == <<255, 241>>

\* C11: a buffer that holds exactly K non-overlapping occurrences of a rule's
\* literal bytes gives a match count of exactly K, whatever else it holds; no
\* match is counted off a byte boundary.
C11_CountIsByteOccurrences ==
    Returned("FindBytesPattern") =>
        call.result = ByteOccurrences(call.buffer, AacBytes, 1)

\* every byte value occurs equally often
Uniform(counter) == \A i \in 0..255 : Get(counter, i) = Get(counter, 0)

\* one byte value occurs, the other 255 do not
OneValue(counter) == Cardinality({i \in 0..255 : Get(counter, i) > 0}) = 1

\* C12: for a non-empty histogram EntropyEstimation returns e with
\* 0 <= e <= 8, e = 8 exactly when the 256 counts are equal and e = 0 exactly
\* when all bytes are the same.
C12_EntropyInRange ==
    (Returned("EntropyEstimation") /\ call.total > 0) =>
        /\ call.result.k = "num"
        /\ 0 <= call.result.n
        /\ call.result.n <= 8 * call.result.d
        /\ call.result.n = 8 * call.result.d <=> Uniform(call.counter)
        /\ call.result.n = 0 <=> OneValue(call.counter)

\* |empirical CDF - theoretical CDF| at byte value i, as its numerator over
\* 256 * total: the bytes up to i are RangeSum(counter, 0, i) of the total,
\* and (i + 1) / 256 of a uniform source
KsGap(counter, total, i) == Abs(256 * RangeSum(counter, 0, i) - (i + 1) * total)

\* C13: for a non-empty histogram KsTest returns D with 0 <= D <= 1, the
\* largest |empirical CDF - theoretical CDF| over the byte values 0..255, and
\* maxDiffPosition is a byte value where that gap is D; a second call on the
\* same histogram returns the same.
C13_KsIsMaxGap ==
    (Returned("KsTest") /\ call.total > 0) =>
        /\ call.result.ks.k = "num"
        /\ call.result.ks.d = 256 * call.total
        /\ 0 <= call.result.ks.n
        /\ call.result.ks.n <= call.result.ks.d
        /\ call.result.maxDiffPosition \in 0..255
        /\ \A i \in 0..255 : KsGap(call.counter, call.total, i) <= call.result.ks.n
        /\ KsGap(call.counter, call.total, call.result.maxDiffPosition) = call.result.ks.n
        /\ KsTest(call.counter, call.total) = call.result

C13_GapAtLastButOne ==
    /\ Returned("KsTest")
    /\ call.total > 0
    /\ call.result.maxDiffPosition = 254
    /\ call.result.ks.n = 255 * call.total

\* C14: for a non-empty histogram ChiSqTest returns 0 exactly when each of the
\* 256 byte values has the count total / 256.
C14_ChiSqZeroIffUniform ==
    (Returned("ChiSqTest") /\ call.total > 0) =>
        /\ call.result.k = "num"
        /\ call.result.d > 0
        /\ call.result.n >= 0
        /\ call.result.n = 0 <=> \A i \in 0..255 : 256 * Get(call.counter, i) = call.total

C14_UniformGivesZero ==
    /\ Returned("ChiSqTest")
    /\ call.total = 512
    /\ \A i \in 0..255 : Get(call.counter, i) = 2
    /\ call.result = Num(0, 256 * 512)

\* x <= n / d for a statistic x and a threshold written as a fraction
AtMost(x, n, d) == x.k = "num" /\ x.n * d <= n * x.d

\* x >= n / d
AtLeast(x, n, d) == x.k = "num" /\ x.n * d >= n * x.d

\* C15: the five flags compare with inclusive bounds: autocorrelation <= 0.125,
\* KS <= 0.1, compression <= 1.1, signature density <= 150.0, entropy >= 7.95;
\* a statistic equal to its threshold gives a true flag.
C15_InclusiveThresholds ==
    Returned("VoteFlags") =>
        /\ call.result.autocorr <=> AtMost(call.autocorr, 125, 1000)
        /\ call.result.ks <=> AtMost(call.stats.ks, 1, 10)
        /\ call.result.compression <=> AtMost(call.stats.compression, 11, 10)
        /\ call.result.signature <=> AtMost(call.stats.signature, 150, 1)
        /\ call.result.entropy <=> AtLeast(call.stats.entropy, 795, 100)

C15_AllAtThreshold ==
    /\ Returned("VoteFlags")
    /\ call.autocorr = Num(125, 1000)
    /\ call.stats.ks = Num(1, 10)
    /\ call.stats.compression = Num(11, 10)
    /\ call.stats.signature = Num(150, 1)
    /\ call.stats.entropy = Num(795, 100)
    /\ \A x \in FlagNames : call.result[x]

\* C16: the last branch of the vote, the one that reports a counting error, is
\* never taken: every combination of the five flags takes the branch for at
\* most 2 or the branch for 3 to 5 positive votes.
C16_NoCountingError ==
    VoteDone => part2Result \in {"at most 2", "in [3,5]"}

\* C17: CreateFileCounterGoro tallies a last block shorter than the buffer: in
\* the ByteCounter it sends, the counts sum to BytesRead, whatever the file
\* and the block size.
C17_GoroCountsSumToBytesRead ==
    (Returned("CreateFileCounterGoro") /\ ~call.result.panic) =>
        SumCounter(call.result.Counter) = call.result.BytesRead

RECURSIVE IsPowerOfTwo(_)
IsPowerOfTwo(p) == p = 1 \/ (p > 1 /\ p % 2 = 0 /\ IsPowerOfTwo(p \div 2))

\* the largest power of two not above s >= 1
LargestPowerOfTwo(s) == CHOOSE p \in 1..s : IsPowerOfTwo(p) /\ 2 * p > s

\* C19: in CreateFileCounterGoro a file of s bytes, 1 <= s < the block size
\* asked for, is read with the largest power of two not above s as block size:
\* a positive power of two no larger than the file.
C19_GoroBlockSizeIsPowerOfTwo ==
    (Returned("CreateFileCounterGoro")
     /\ 1 <= Len(call.data) /\ Len(call.data) < call.blockSize) =>
        /\ ~call.result.panic
        /\ call.result.blockSize = LargestPowerOfTwo(Len(call.data))
        /\ call.result.blockSize > 0
        /\ call.result.blockSize <= Len(call.data)

\* C18: CreateFileCounter reads a file of s bytes, 1 <= s < the block size
\* asked for, with the largest power of two not above s as block size, and a
\* file of at least the block size asked for with that block size.
C18_BlockSizeIsLargestPowerOfTwo ==
    (mode = "counter" /\ pc \in {"cfc_loop", "cfc_ret"}) =>
        /\ (1 <= Len(input.data) /\ Len(input.data) < cfc.req)
              => cfc.blockSize = LargestPowerOfTwo(Len(input.data))
        /\ Len(input.data) >= cfc.req => cfc.blockSize = cfc.req

C18_SixByteFile ==
    /\ mode = "counter"
    /\ pc = "cfc_loop"
    /\ Len(input.data) = 6
    /\ cfc.req = BlockSize
    /\ cfc.blockSize = 4
    /\ cfc.readBytesCount = 4

----------------------------------------------------------------------------
(* CreateFileCounter on a file whose reads can fail *)

\* A read of the file fails with an error that is not io.EOF.  The reader
\* reads the file only when it has nothing buffered and is asked for at least
\* one byte; a failed read of an os.File returns 0 bytes with the error, and
\* the reader hands both on.  bytesRead == 0 is tested first: break.
CfcReadError ==
    /\ pc = "cfc_loop"
    /\ cfc.buffered = 0
    /\ cfc.blockSize > 0
    /\ readErr' = "EIO"
    /\ pc' = "cfc_ret"
    /\ UNCHANGED <<goro, call, mode, input, outputDir, optFile, calls, errorWindows, enc,
                   encToolResult, encToolFound, autocorrResult, partedResult, cfc,
                   hist, stats, toolErr, flags, finalResult, encryptionResult,
                   part1Result, part2Result, fatalReason>>

NextCounterIO == CfcOpen \/ CfcRead \/ CfcReadError \/ CfcReturn

SpecCounterIO == InitCounter /\ [][NextCounterIO]_vars

\* C20: a read error of CreateFileCounter other than the end of the file ends
\* the run, also when the read returns 0 bytes with the error: no histogram is
\* returned as if the file had ended.
C20_ReadErrorIsFatal ==
    readErr # "" => (pc = "fatal" /\ hist = NoHist)

----------------------------------------------------------------------------
(* CreateFileCounterGoro as goroutines: N workers, one result channel, one   *)
(* WaitGroup, and the goroutine that started them                            *)

\* the number of workers started
NWorkers == 2

Workers == 1..NWorkers

\* the files handed to the workers; the empty one makes the worker panic
WorkerFiles == {<<>>, ShortTail, ZeroBlock}

\* The two ways a caller can join the workers.  "wait_first": wg.Wait() and then
\* N receives; "receive_first": N receives and then wg.Wait().
CallerKinds == {"wait_first", "receive_first"}

\* after wg.Add(NWorkers) and the go statements
InitGoro ==
    /\ HandlerAtRest(NoCall)
    /\ \E c \in 0..NWorkers, k \in CallerKinds, f \in [Workers -> WorkerFiles] :
         goro = [cap |-> c,
                 chan |-> <<>>,
                 wg |-> NWorkers,
                 worker |-> [w \in Workers |->
                               [pc |-> "run", data |-> f[w],
                                result |-> [Filename |-> w, Counter |-> EmptyCounter,
                                            BytesRead |-> 0]]],
                 sends |-> [w \in Workers |-> 0],
                 caller |-> [kind |-> k,
                             pc |-> IF k = "wait_first" THEN "wait" ELSE "receive",
                             received |-> <<>>],
                 crashed |-> FALSE]

\* a faulty variant: a send never blocks
ChanNeverFull(chan, cap) == TRUE

\* `resultChannel <- result` goes through when the buffer has room
ChanHasRoom(chan, cap) == Len(chan) < cap

\* the body of the function up to the send: the file is read into the worker's
\* own totalCounter; make([]byte, blockSize) panics for the empty file
GoroRun(w) ==
    /\ ~goro.crashed
    /\ goro.worker[w].pc = "run"
    /\ LET r == CreateFileCounterGoro(goro.worker[w].data, BlockSize)
       IN  goro' = [goro EXCEPT
                      !.worker[w].pc = IF r.panic THEN "panicking" ELSE "send",
                      !.worker[w].result = [Filename |-> w, Counter |-> r.Counter,
                                            BytesRead |-> r.BytesRead]]
    /\ UNCHANGED restVars

\* resultChannel <- result, into the buffer
GoroSend(w) ==
    /\ ~goro.crashed
    /\ goro.worker[w].pc = "send"
    /\ ChanHasRoom(goro.chan, goro.cap)
    /\ goro' = [goro EXCEPT
                  !.chan = Append(@, goro.worker[w].result),
                  !.sends[w] = @ + 1,
                  !.worker[w].pc = "deferred"]
    /\ UNCHANGED restVars

\* where the caller is after it has received n results
AfterReceive(kind, n) ==
    IF n < NWorkers THEN "receive"
    ELSE IF kind = "receive_first" THEN "wait" ELSE "done"

\* resultChannel <- result, handed to the caller blocked in its receive
GoroHandOff(w) ==
    /\ ~goro.crashed
    /\ goro.worker[w].pc = "send"
    /\ goro.caller.pc = "receive"
    /\ goro.chan = <<>>
    /\ goro' = [goro EXCEPT
                  !.caller.received = Append(@, goro.worker[w].result),
                  !.caller.pc = AfterReceive(goro.caller.kind,
                                             Len(goro.caller.received) + 1),
                  !.sends[w] = @ + 1,
                  !.worker[w].pc = "deferred"]
    /\ UNCHANGED restVars

\* the function returns: the deferred wg.Done() runs
GoroDone(w) ==
    /\ ~goro.crashed
    /\ goro.worker[w].pc = "deferred"
    /\ goro' = [goro EXCEPT !.wg = @ - 1, !.worker[w].pc = "returned"]
    /\ UNCHANGED restVars

\* the panic unwinds the function: the deferred wg.Done() runs
GoroUnwind(w) ==
    /\ ~goro.crashed
    /\ goro.worker[w].pc = "panicking"
    /\ goro' = [goro EXCEPT !.wg = @ - 1, !.worker[w].pc = "unwound"]
    /\ UNCHANGED restVars

\* the panic reaches the top of the goroutine: the process ends
GoroCrash(w) ==
    /\ ~goro.crashed
    /\ goro.worker[w].pc = "unwound"
    /\ goro' = [goro EXCEPT !.crashed = TRUE]
    /\ UNCHANGED restVars

\* wg.Wait() returns when the counter is 0
CallerWait ==
    /\ ~goro.crashed
    /\ goro.caller.pc = "wait"
    /\ goro.wg = 0
    /\ goro' = [goro EXCEPT
                  !.caller.pc = IF goro.caller.kind = "wait_first" THEN "receive"
                                ELSE "done"]
    /\ UNCHANGED restVars

\* <-resultChannel, from the buffer
CallerReceive ==
    /\ ~goro.crashed
    /\ goro.caller.pc = "receive"
    /\ goro.chan # <<>>
    /\ goro' = [goro EXCEPT
                  !.chan = Tail(@),
                  !.caller.received = Append(@, Head(goro.chan)),
                  !.caller.pc = AfterReceive(goro.caller.kind,
                                             Len(goro.caller.received) + 1)]
    /\ UNCHANGED restVars

NextGoro ==
    \/ \E w \in Workers : GoroRun(w)
    \/ \E w \in Workers : GoroSend(w)
    \/ \E w \in Workers : GoroHandOff(w)
    \/ \E w \in Workers : GoroDone(w)
    \/ \E w \in Workers : GoroUnwind(w)
    \/ \E w \in Workers : GoroCrash(w)
    \/ CallerWait
    \/ CallerReceive

SpecGoro == InitGoro /\ [][NextGoro]_vars

----------------------------------------------------------------------------
(* Properties of EncToolDetection, AutoCorrelation and the histogram *)

\* C21: a sector directive N places the probe in whole blocks: for N > 0 the
\* read starts at the start of block N, a multiple of the block size, and for
\* N < 0 it starts |N| blocks before the end of the file; for every N # 0.
C21_SectorIsWholeBlocks ==
    Returned("SectorSeek") =>
        IF call.sector > 0
        THEN call.result \in {(call.sector - 1) * BlockSize, call.sector * BlockSize}
        ELSE call.result = call.size - Abs(call.sector) * BlockSize

\* C22: after a sector probe the file position is 0 again before the next
\* rule is taken up, so in whatever order the rules are visited the full scan
\* of the sector-0 rule starts at offset 0 and runs over the whole file.
C22_ProbeRestoresPosition ==
    (mode = "main" /\ pc = "enc_loop" /\ input.path = "file") =>
        /\ "FileVault v2" \notin enc.visited => enc.pos = 0
        /\ "FileVault v2" \in enc.visited =>
              /\ enc.pos \in {0, Len(input.data)}
              /\ enc.found["FileVault v2"]
                    = ScanFrom(input.data, 0, BlockSize, EncPatterns["FileVault v2"])

C22_ScanAfterProbe ==
    /\ mode = "main"
    /\ pc = "enc_loop"
    /\ input.path = "file"
    /\ Len(input.data) = 2 * BlockSize
    /\ enc.visited = {"LUKSv1", "FileVault v2"}
    /\ enc.found["LUKSv1"] = 1
    /\ enc.pos = Len(input.data)

\* the k-th block of a file cut into blocks of bs bytes, k = 0, 1, ...
BlockOf(data, bs, k) == SubSeq(data, k * bs + 1, Min((k + 1) * bs, Len(data)))

\* the number of blocks, a last and shorter one included
BlockCount(data, bs) == (Len(data) + bs - 1) \div bs

RECURSIVE SumTo(_, _)
\* f[0] + ... + f[n - 1]
SumTo(f, n) == IF n = 0 THEN 0 ELSE f[n - 1] + SumTo(f, n - 1)

\* the matches of rule p in the blocks of the file, block by block
PerBlockMatches(data, bs, p) ==
    SumTo([k \in 0..(BlockCount(data, bs) - 1) |->
              FindBytesPattern(HexEncode(BlockOf(data, bs, k)), p)],
          BlockCount(data, bs))

\* C23: in hail-mary mode EncToolDetection reads the file from offset 0 to its
\* end and matches each of the six rules on each block read, a last and
\* shorter block included, whatever the rule's sector; it does not seek.
C23_HailMaryScansEveryBlock ==
    Returned("EncToolDetectionHailMary") =>
        \A r \in EncRuleNames :
            call.result[r] = PerBlockMatches(call.data, BlockSize, EncPatterns[r])

C23_MagicInShortBlock ==
    /\ Returned("EncToolDetectionHailMary")
    /\ call.data = ZeroBlock \o GeliBlock \o Luks1Magic
    /\ call.result["LUKSv1"] = 1
    /\ call.result["FreeBSD GELI"] = 1

\* C24: AutoCorrelation scores full blocks only: a read of fewer bytes than the
\* block size adds no score and ends the scan, so a file of s bytes gives
\* floor(s / blockSize) scores.
C24_ScoresAreFullBlocks ==
    Returned("AutoCorrelation") =>
        call.result.scores = Len(call.data) \div BlockSize

C24_TailDropped ==
    /\ Returned("AutoCorrelation")
    /\ Len(call.data) = 2 * BlockSize + 3
    /\ call.result.scores = 2

\* C25: mergeCounterLists is commutative and associative and adds the counts bin
\* by bin: merge(a,b) = merge(b,a), merge(merge(a,b),c) = merge(a,merge(b,c)) and
\* merge(a,b)[k] = a[k] + b[k] for every byte value k.
C25_MergeIsCommutativeAssociativeSum ==
    Returned("mergeCounterLists") =>
        /\ call.result.ab = call.result.ba
        /\ call.result.ab_c = call.result.a_bc
        /\ \A k \in 0..255 : Get(call.result.ab, k) = Get(call.a, k) + Get(call.b, k)
        /\ \A k \in 0..255 :
              Get(call.result.ab_c, k) = Get(call.a, k) + Get(call.b, k) + Get(call.c, k)

C25_OverlappingBins ==
    /\ Returned("mergeCounterLists")
    /\ call.a = countBytes(<<0, 128>>)
    /\ call.b = countBytes(<<128, 255>>)
    /\ call.c = countBytes(<<255, 255>>)
    /\ call.result.ab[128] = 2
    /\ call.result.ab_c[255] = 3

\* C26: KsTest, EntropyEstimation and ChiSqTest leave the histogram map and the
\* total as they were: no key is added for a byte value that was never counted
\* and no count is changed.
C26_TestsLeaveHistogram ==
    [][(pc = "unit_call" /\ call.fn \in {"KsTest", "EntropyEstimation", "ChiSqTest"})
          => (call'.counter = call.counter /\ call'.total = call.total)]_vars

C26_SparseHistogramRead ==
    /\ Returned("ChiSqTest")
    /\ DOMAIN call.counter = {0, 255}
    /\ call.total = 2

\* the rules in the order of the map literal
LiteralOrder == <<"FreeBSD GELI", "BitLocker", "LUKSv1", "LUKSv2", "FileVault v2", "PGP WDE">>

RECURSIVE EncRunFrom(_, _, _)
\* the rule loop on a file with the rules visited in the given order, from the
\* position and counts of st: whether the run aborted, and the counts returned
EncRunFrom(data, order, st) ==
    IF order = <<>> THEN [aborted |-> FALSE, found |-> st.found]
    ELSE LET r == Head(order)
             target == SeekTarget(Len(data), BlockSize, EncPatterns[r].sector)
             block == ReadAt(data, target, BlockSize)
         IN  IF EncPatterns[r].sector = 0
             THEN EncRunFrom(data, Tail(order),
                             [pos |-> Max(st.pos, Len(data)),
                              found |-> [st.found EXCEPT
                                           ![r] = @ + ScanFrom(data, st.pos, BlockSize,
                                                               EncPatterns[r])]])
             ELSE IF target < 0 THEN [aborted |-> TRUE, found |-> st.found]
             ELSE IF block = <<>> THEN [aborted |-> FALSE, found |-> st.found]
             ELSE EncRunFrom(data, Tail(order),
                             [pos |-> 0,
                              found |-> [st.found EXCEPT
                                           ![r] = @ + FindBytesPattern(HexEncode(block),
                                                                       EncPatterns[r])]])

\* EncToolDetection has ended on a file: it returned to the handler or it aborted
EncEndedOnFile ==
    /\ mode = "main"
    /\ input.path = "file"
    /\ "EncToolDetection" \in calls
    /\ pc = "gate" \/ (pc = "fatal" /\ fatalReason = "Seek error")

\* C27: the outcome of EncToolDetection is the same for every order of the six
\* rules: a run in any order aborts exactly when the run in the order of the map
\* literal aborts, and returns the counts that run returns.
C27_OutcomeIsOrderFree ==
    EncEndedOnFile =>
        LET ref == EncRunFrom(input.data, LiteralOrder, [pos |-> 0, found |-> NoEnc.found])
        IN  IF pc = "fatal" THEN ref.aborted
            ELSE ~ref.aborted /\ encToolResult = ref.found

\* C28: on a file with fewer than two full blocks AutoCorrelation returns 0.0,
\* whatever the bytes are, and the autocorrelation flag of the vote is true.
C28_FewBlocksScoreZero ==
    (mode = "main" /\ "AutoCorrelation" \in calls /\ optFile.exists
       /\ Len(optFile.data) < 2 * BlockSize) =>
        /\ autocorrResult = Num(0, 1)
        /\ VoteDone => flags.autocorr

C28_OneBlockVoted ==
    /\ mode = "main"
    /\ VoteDone
    /\ optFile.data = AltBlock \o ShortTail
    /\ autocorrResult = Num(0, 1)
    /\ flags.autocorr

\* the occurrences of p in the hex text of the file that lie within one block
OccurrencesWithinBlocks(data, bs, p) ==
    Cardinality({i \in 1..(2 * Len(data)) :
                    /\ MatchAt(HexEncode(data), p, i)
                    /\ (i - 1) \div (2 * bs) = (i + PatLen(p) - 2) \div (2 * bs)})

\* C29: a full scan matches each block on its own: the count of a rule is the sum
\* of its counts in the blocks, and an occurrence that spans the boundary of two
\* blocks is not counted.
C29_BlocksMatchedIndependently ==
    Returned("FullScan") =>
        /\ call.result = PerBlockMatches(call.data, call.blockSize, AacPattern)
        /\ call.result = OccurrencesWithinBlocks(call.data, call.blockSize, AacPattern)

C29_SpanningOccurrenceLost ==
    /\ Returned("FullScan")
    /\ call.data = <<255, 241>>
    /\ call.blockSize = 1
    /\ call.result = 0
    /\ FindBytesPattern(HexEncode(call.data), AacPattern) = 1

\* no worker of this run panics
NoWorkerPanics ==
    \A w \in Workers : ~CreateFileCounterGoro(goro.worker[w].data, BlockSize).panic

\* wg.Wait() has returned in the caller
WaitReturned ==
    \/ goro.caller.kind = "wait_first" /\ goro.caller.pc \in {"receive", "done"}
    \/ goro.caller.kind = "receive_first" /\ goro.caller.pc = "done"

\* the results that have been sent: in the buffer or with the caller
SentResults == goro.chan \o goro.caller.received

\* C30: a worker that reaches the end of its file sends one ByteCounter, made of
\* its own file alone, and signals the WaitGroup after that send; so when
\* wg.Wait() returns all N results have been sent, and a caller that waits
\* before it receives, on a channel of capacity below N, never gets past the wait.
C30_SendThenDone ==
    mode = "unit" /\ goro # NoGoro =>
        /\ \A w \in Workers :
              /\ goro.sends[w] <= 1
              /\ goro.worker[w].pc \in {"deferred", "returned"} <=> goro.sends[w] = 1
        /\ \A i \in 1..Len(SentResults) :
              LET r == CreateFileCounterGoro(goro.worker[SentResults[i].Filename].data,
                                             BlockSize)
              IN  /\ SentResults[i].Counter = r.Counter
                  /\ SentResults[i].BytesRead = r.BytesRead
        /\ (WaitReturned /\ NoWorkerPanics) => \A w \in Workers : goro.sends[w] = 1
        /\ (goro.caller.kind = "wait_first" /\ goro.cap < NWorkers /\ NoWorkerPanics)
              => goro.caller.pc = "wait"

\* the deadlock: the buffer is full, a worker is blocked in its send, the caller
\* in wg.Wait()
C30_WaitFirstDeadlock ==
    /\ goro # NoGoro
    /\ goro.caller.kind = "wait_first"
    /\ goro.caller.pc = "wait"
    /\ goro.cap = 1
    /\ Len(goro.chan) = 1
    /\ \E w \in Workers : goro.worker[w].pc = "returned"
    /\ \E w \in Workers : goro.worker[w].pc = "send"
    /\ ~ENABLED NextGoro

====
